---- MODULE Spec2Model ----
(***************************************************************************)
(* The template marketplace's MonetizationEngine                           *)
(* (src/monetization/stripe-integration.py): the category lookup, the      *)
(* five product builders, the catalog run create_all_stripe_products and   *)
(* setup_digital_delivery, with Stripe and S3 as external services whose   *)
(* calls may raise; and its TemplateOrchestrator                           *)
(* (src/agents/template-orchestrator.py): the price tier of a category and *)
(* the generate_template_batch coroutines of one orchestrator.             *)
(*                                                                         *)
(* Six specifications:                                                     *)
(*   Spec         one run of warp_setup_monetization's first step, the     *)
(*                call of create_all_stripe_products, entry by entry;      *)
(*   SpecCalls    the engine's methods invoked one by one by a caller, in  *)
(*                any order, at most MaxCalls times;                       *)
(*   SpecLookup   the category lookup alone, over every id of LookupIds;   *)
(*   SpecDelivery one call of setup_digital_delivery, folder by folder;    *)
(*   SpecTier     _calculate_price_tier alone, over TierInputs;            *)
(*   SpecBatches  NumTasks generate_template_batch coroutines interleaved  *)
(*                at their awaits.                                         *)
(* The display texts of a product (name, description), the stripe_url      *)
(* text, the LLM prompt and the dates of a template are not modelled.      *)
(***************************************************************************)
EXTENDS Integers, Sequences, FiniteSets, TLC

VARIABLES
    pc,               \* where create_all_stripe_products stands
    i,                \* the individual loop's template id (range(1, 488))
    j,                \* the bundle loop's position in categories
    results,          \* the local dict of create_all_stripe_products
    products,         \* warp_setup_monetization's variable: the value returned
    exc,              \* the exception that left create_all_stripe_products
    stripe_products,  \* Stripe: the products created, in call order
    stripe_prices,    \* Stripe: the prices created, in call order
    last,             \* SpecCalls: the latest direct call and what it gave
    ncalls,           \* SpecCalls: the number of direct calls made
    dpc,              \* where setup_digital_delivery stands
    f,                \* its loop's position in folders
    s3_puts,          \* S3: the put_object calls made, in order, and how each ended
    delivery,         \* warp_setup_monetization's variable: the value returned
    tasks,            \* the generate_template_batch coroutines of one orchestrator
    generated_today   \* TemplateOrchestrator.generated_today

\* setup_digital_delivery and S3.
delivery_vars == <<dpc, f, s3_puts, delivery>>

\* The TemplateOrchestrator and its coroutines.
orch_vars == <<tasks, generated_today>>

\* The catalog run, Stripe and the direct calls.
engine_vars == <<pc, i, j, results, products, exc, stripe_products,
                 stripe_prices, last, ncalls>>

vars == <<pc, i, j, results, products, exc, stripe_products, stripe_prices,
          last, ncalls, dpc, f, s3_puts, delivery, tasks, generated_today>>

\* ---------------------------------------------------------------- bounds
\* Direct calls one behaviour of SpecCalls makes.
MaxCalls == 2
\* Ids looked up on each side of the inventory: -Margin .. 487 + Margin.
Margin == 4

\* generate_template_batch coroutines on one orchestrator.
NumTasks == 2
\* The largest count a batch is asked for.
MaxCount == 3

\* ------------------------------------------------------------- constants
\* Python's None.
None == [none |-> TRUE]

\* The coroutines a caller may create.
Tasks == 1..NumTasks

\* A coroutine not created yet.
NotStarted == [state |-> "new"]

\* range(1, 488): the stop of the individual loop.
RANGE_STOP_off_by_one == 488 - 1
RANGE_STOP == 488

\* The ids a caller looks up: the inventory and Margin ids on each side.
LookupIds == (0 - Margin)..(487 + Margin)

\* The ids a caller builds an individual product for in SpecCalls.
ProbeIds == {1, 24, 25, 61, 487}

\* The ids a caller looks up in SpecCalls, between the builders' calls.
ProbeLookupIds == ProbeIds \cup {-1, 0, 488}

category_mapping_gap ==
    << [start |-> 1,   end |-> 60,  category |-> "Corporate & Enterprise"],
       [start |-> 61,  end |-> 132, category |-> "Financial Services"],
       [start |-> 133, end |-> 192, category |-> "E-commerce & Retail"],
       [start |-> 193, end |-> 252, category |-> "Education & Training"],
       [start |-> 253, end |-> 271, category |-> "Healthcare & Wellness"],
       [start |-> 273, end |-> 312, category |-> "Community Impact"],
       [start |-> 313, end |-> 372, category |-> "Creative & Media"],
       [start |-> 373, end |-> 432, category |-> "Construction & Real Estate"],
       [start |-> 433, end |-> 467, category |-> "Technology & SaaS"],
       [start |-> 468, end |-> 487, category |-> "Research & Development"] >>

\* The dict of _get_category_for_template, in insertion order (the order
\* .items() yields).
category_mapping ==
    << [start |-> 1,   end |-> 60,  category |-> "Corporate & Enterprise"],
       [start |-> 61,  end |-> 132, category |-> "Financial Services"],
       [start |-> 133, end |-> 192, category |-> "E-commerce & Retail"],
       [start |-> 193, end |-> 252, category |-> "Education & Training"],
       [start |-> 253, end |-> 272, category |-> "Healthcare & Wellness"],
       [start |-> 273, end |-> 312, category |-> "Community Impact"],
       [start |-> 313, end |-> 372, category |-> "Creative & Media"],
       [start |-> 373, end |-> 432, category |-> "Construction & Real Estate"],
       [start |-> 433, end |-> 467, category |-> "Technology & SaaS"],
       [start |-> 468, end |-> 487, category |-> "Research & Development"] >>

\* The list of create_all_stripe_products, in declared order.
categories ==
    << "Corporate & Enterprise", "Financial Services", "E-commerce & Retail",
       "Education & Training", "Healthcare & Wellness", "Community Impact",
       "Creative & Media", "Construction & Real Estate", "Technology & SaaS",
       "Research & Development" >>

\* self.pricing_tiers; a commission 0.1 is written <<1, 10>>.
pricing_tiers ==
    [ individual   |-> [price_range |-> <<5, 50>>, commission |-> <<1, 10>>],
      bundle       |-> [price_range |-> <<99, 299>>, commission |-> <<15, 100>>],
      vault        |-> [price |-> 997, commission |-> <<2, 10>>],
      enterprise   |-> [price_range |-> <<1497, 4997>>, commission |-> <<25, 100>>],
      subscription |-> [monthly |-> 47, annual |-> 470, commission |-> <<3, 10>>] ]

\* ------------------------------------------------------- category lookup
in_range_exclusive(r, template_id) ==
    r.start < template_id /\ template_id <= r.end

\* if start <= template_id <= end
in_range(r, template_id) ==
    r.start <= template_id /\ template_id <= r.end

fallback_missing == "None"

\* return 'Miscellaneous'
fallback == "Miscellaneous"

RECURSIVE scan(_, _)
\* for (start, end), category in category_mapping.items(), from entry k on.
scan(template_id, k) ==
    IF k > Len(category_mapping) THEN fallback
    ELSE IF in_range(category_mapping[k], template_id)
         THEN category_mapping[k].category
         ELSE scan(template_id, k + 1)

_get_category_for_template(template_id) == scan(template_id, 1)

\* ---------------------------------------------------------------- Stripe
\* Stripe's state as a value: the products and the prices created so far.
StripeState == [products |-> stripe_products, prices |-> stripe_prices]

\* The exception a failing Stripe call raises.
StripeError(api) == [type |-> "StripeError", api |-> api]

\* stripe.Product.create(metadata=...) on Stripe state s: the Product object,
\* with a fresh id.
Product(s, metadata) ==
    [id |-> <<"prod", Len(s.products) + 1>>, metadata |-> metadata]

\* stripe.Price.create(product=, unit_amount=, currency='usd', recurring=,
\* metadata=), the k-th price a builder creates on Stripe state s.
Price(s, k, product_id, unit_amount, recurring, metadata) ==
    [id |-> <<"price", Len(s.prices) + k>>, product |-> product_id,
     unit_amount |-> unit_amount, currency |-> "usd",
     recurring |-> recurring, metadata |-> metadata]

\* A builder makes one Product.create call and then Len(prices) Price.create
\* calls. fail = 0: none raises and the builder returns value. fail = k > 0:
\* the k-th call raises; the calls before it have taken effect in Stripe and
\* the exception leaves the builder.
Outcome(s, product, prices, fail, value) ==
    [ stripe |-> [products |-> IF fail = 1 THEN s.products
                               ELSE Append(s.products, product),
                  prices   |-> s.prices \o
                               SubSeq(prices, 1, IF fail = 0 THEN Len(prices)
                                                 ELSE fail - 2)],
      value  |-> IF fail = 0 THEN value ELSE None,
      exc    |-> IF fail = 0 THEN None
                 ELSE StripeError(IF fail = 1 THEN "Product.create"
                                  ELSE "Price.create") ]

\* -------------------------------------------------------------- builders
base_price_wide(template_id) == 25 + (template_id % 50)

base_price_counted(template_id) ==
    25 + ((template_id + Len(stripe_products)) % 25)

\* base_price = 25 + (template_id % 25)
base_price(template_id) == 25 + (template_id % 25)

_create_individual_template_product(s, template_id, fail) ==
    LET amount  == base_price(template_id)
        product == Product(s, [template_id |-> template_id,
                               category |-> _get_category_for_template(template_id),
                               type |-> "individual_template"])
        price   == Price(s, 1, product.id, amount * 100, None,
                         [template_id |-> template_id,
                          pricing_tier |-> "individual"])
    IN  Outcome(s, product, <<price>>, fail,
                [product_id |-> product.id, price_id |-> price.id,
                 template_id |-> template_id, amount |-> amount,
                 stripe_url |-> <<"test_", price.id>>])

\* bundle_price = 199 + (len(category) * 10)
bundle_price(category) == 199 + (Len(category) * 10)

_create_bundle_product(s, category, fail) ==
    LET bundle_size == 48
        amount  == bundle_price(category)
        product == Product(s, [category |-> category,
                               template_count |-> bundle_size,
                               type |-> "bundle"])
        price   == Price(s, 1, product.id, amount * 100, None,
                         [category |-> category, pricing_tier |-> "bundle"])
    IN  Outcome(s, product, <<price>>, fail,
                [product_id |-> product.id, price_id |-> price.id,
                 category |-> category, amount |-> amount,
                 template_count |-> bundle_size])

vault_unit_amount_typo == 997 * 10

\* unit_amount=99700
vault_unit_amount == 99700

_create_vault_license_product(s, fail) ==
    LET product == Product(s, [template_count |-> 487,
                               type |-> "vault_license",
                               includes |-> "all_templates,lifetime_updates,consulting"])
        price   == Price(s, 1, product.id, vault_unit_amount, None,
                         [pricing_tier |-> "vault",
                          value_proposition |-> "complete_access"])
    IN  Outcome(s, product, <<price>>, fail,
                [product_id |-> product.id, price_id |-> price.id,
                 amount |-> 997, template_count |-> 487,
                 includes |-> <<"all_templates", "lifetime_updates",
                                "consulting_sessions">>])

\* amounts = {'monthly': 47, 'annual': 470}
amounts == [monthly |-> 47, annual |-> 470]

\* amounts[interval] raises KeyError for any other interval, before any call
\* to Stripe.
_create_subscription_product(s, interval, fail) ==
    IF interval \notin DOMAIN amounts
    THEN [stripe |-> s, value |-> None,
          exc |-> [type |-> "KeyError", key |-> interval]]
    ELSE
    LET amount  == amounts[interval]
        product == Product(s, [type |-> "subscription", interval |-> interval,
                               templates_per_month |-> 10])
        price   == Price(s, 1, product.id, amount * 100,
                         [interval |-> IF interval = "monthly" THEN "month"
                                       ELSE "year"],
                         [pricing_tier |-> "subscription",
                          templates_monthly |-> 10])
    IN  Outcome(s, product, <<price>>, fail,
                [product_id |-> product.id, price_id |-> price.id,
                 interval |-> interval, amount |-> amount,
                 templates_per_month |-> 10])

enterprise_tiers_swapped ==
    << [tier |-> "growth", amount |-> 2997],
       [tier |-> "starter", amount |-> 1997],
       [tier |-> "enterprise", amount |-> 4997] >>

\* [('starter', 1997), ('growth', 2997), ('enterprise', 4997)]
enterprise_tiers ==
    << [tier |-> "starter", amount |-> 1997],
       [tier |-> "growth", amount |-> 2997],
       [tier |-> "enterprise", amount |-> 4997] >>

\* f'enterprise_{tier}'
enterprise_label ==
    [starter |-> "enterprise_starter", growth |-> "enterprise_growth",
     enterprise |-> "enterprise_enterprise"]

_create_enterprise_product(s, fail) ==
    LET product == Product(s, [type |-> "enterprise",
                               includes |-> "custom_templates,white_label,consulting,implementation"])
        price(k) == Price(s, k, product.id, enterprise_tiers[k].amount * 100,
                          None,
                          [pricing_tier |-> enterprise_label[enterprise_tiers[k].tier],
                           includes_consulting |-> TRUE])
        prices  == [k \in 1..Len(enterprise_tiers) |->
                       [tier |-> enterprise_tiers[k].tier,
                        price_id |-> price(k).id,
                        amount |-> enterprise_tiers[k].amount]]
    IN  Outcome(s, product, [k \in 1..Len(enterprise_tiers) |-> price(k)], fail,
                [product_id |-> product.id, pricing_tiers |-> prices,
                 type |-> "enterprise"])

\* ------------------------------------------- create_all_stripe_products
\* list.append
insert_front(list, x) == <<x>> \o list

shared_dict(list, x) == [k \in 1..(Len(list) + 1) |-> x]

append(list, x) == Append(list, x)

\* results = {...}
empty_results ==
    [individual_templates |-> <<>>, bundles |-> <<>>, subscriptions |-> <<>>,
     enterprise |-> <<>>, vault_license |-> None]

Init ==
    /\ pc = "idle"
    /\ i = 0
    /\ j = 0
    /\ results = None
    /\ products = None
    /\ exc = None
    /\ stripe_products = <<>>
    /\ stripe_prices = <<>>
    /\ last = None
    /\ ncalls = 0
    /\ dpc = "idle"
    /\ f = 0
    /\ s3_puts = <<>>
    /\ delivery = None
    /\ tasks = [t \in Tasks |-> NotStarted]
    /\ generated_today = 0

\* An exception leaves create_all_stripe_products: no handler is on the way,
\* so it leaves warp_setup_monetization too and products is never assigned.
\* results and the loop positions keep their last values: the frame the
\* exception unwinds.
Raise(e) ==
    /\ pc' = "raised"
    /\ exc' = e.exc
    /\ stripe_products' = e.stripe.products
    /\ stripe_prices' = e.stripe.prices
    /\ UNCHANGED <<i, j, results, products, last, ncalls,
                   delivery_vars, orch_vars>>

\* products = engine.create_all_stripe_products(): the call, up to the
\* first loop.
StartRun ==
    /\ pc = "idle"
    /\ results' = empty_results
    /\ i' = 1
    /\ j' = 1
    /\ pc' = IF 1 < RANGE_STOP THEN "individual" ELSE "bundles"
    /\ UNCHANGED <<products, exc, stripe_products, stripe_prices, last, ncalls,
                   delivery_vars, orch_vars>>

\* One pass of "for i in range(1, 488)".
IndividualStep ==
    /\ pc = "individual"
    /\ \E fail \in 0..2 :
         LET e == _create_individual_template_product(StripeState, i, fail)
         IN  IF fail = 0
             THEN /\ results' = [results EXCEPT !.individual_templates =
                                                    append(@, e.value)]
                  /\ i' = i + 1
                  /\ pc' = IF i + 1 < RANGE_STOP THEN "individual" ELSE "bundles"
                  /\ stripe_products' = e.stripe.products
                  /\ stripe_prices' = e.stripe.prices
                  /\ UNCHANGED <<j, products, exc, last, ncalls,
                               delivery_vars, orch_vars>>
             ELSE Raise(e)

\* One pass of "for category in categories".
BundleStep ==
    /\ pc = "bundles"
    /\ \E fail \in 0..2 :
         LET e == _create_bundle_product(StripeState, categories[j], fail)
         IN  IF fail = 0
             THEN /\ results' = [results EXCEPT !.bundles = append(@, e.value)]
                  /\ j' = j + 1
                  /\ pc' = IF j + 1 <= Len(categories) THEN "bundles" ELSE "vault"
                  /\ stripe_products' = e.stripe.products
                  /\ stripe_prices' = e.stripe.prices
                  /\ UNCHANGED <<i, products, exc, last, ncalls,
                               delivery_vars, orch_vars>>
             ELSE Raise(e)

\* results['vault_license'] = self._create_vault_license_product()
VaultStep ==
    /\ pc = "vault"
    /\ \E fail \in 0..2 :
         LET e == _create_vault_license_product(StripeState, fail)
         IN  IF fail = 0
             THEN /\ results' = [results EXCEPT !.vault_license = e.value]
                  /\ pc' = "subscriptions"
                  /\ stripe_products' = e.stripe.products
                  /\ stripe_prices' = e.stripe.prices
                  /\ UNCHANGED <<i, j, products, exc, last, ncalls,
                               delivery_vars, orch_vars>>
             ELSE Raise(e)

\* monthly_sub, annual_sub and results['subscriptions'] = [monthly_sub,
\* annual_sub]. fail counts the four Stripe calls of the two builders.
SubscriptionsStep ==
    /\ pc = "subscriptions"
    /\ \E fail \in 0..4 :
         LET monthly == _create_subscription_product(
                            StripeState, "monthly", IF fail > 2 THEN 0 ELSE fail)
             annual  == _create_subscription_product(
                            monthly.stripe, "annual",
                            IF fail > 2 THEN fail - 2 ELSE 0)
         IN  IF fail = 0
             THEN /\ results' = [results EXCEPT !.subscriptions =
                                                    <<monthly.value, annual.value>>]
                  /\ pc' = "enterprise"
                  /\ stripe_products' = annual.stripe.products
                  /\ stripe_prices' = annual.stripe.prices
                  /\ UNCHANGED <<i, j, products, exc, last, ncalls,
                               delivery_vars, orch_vars>>
             ELSE IF fail <= 2 THEN Raise(monthly) ELSE Raise(annual)

\* results['enterprise'].append(...) and return results.
EnterpriseStep ==
    /\ pc = "enterprise"
    /\ \E fail \in 0..4 :
         LET e == _create_enterprise_product(StripeState, fail)
         IN  IF fail = 0
             THEN /\ results' = [results EXCEPT !.enterprise = append(@, e.value)]
                  /\ products' = results'
                  /\ pc' = "returned"
                  /\ stripe_products' = e.stripe.products
                  /\ stripe_prices' = e.stripe.prices
                  /\ UNCHANGED <<i, j, exc, last, ncalls,
                               delivery_vars, orch_vars>>
             ELSE Raise(e)

Next ==
    \/ StartRun
    \/ IndividualStep
    \/ BundleStep
    \/ VaultStep
    \/ SubscriptionsStep
    \/ EnterpriseStep

Spec == Init /\ [][Next]_vars

\* ------------------------------------------------- the methods, one by one
\* A caller invokes one method of the engine outside any run: what the call
\* gave (a value, or the exception that left it) and its effect on Stripe.
Invoke(fn, arg, e) ==
    /\ pc = "idle"
    /\ ncalls < MaxCalls
    /\ ncalls' = ncalls + 1
    /\ last' = [fn |-> fn, arg |-> arg, value |-> e.value, exc |-> e.exc]
    /\ stripe_products' = e.stripe.products
    /\ stripe_prices' = e.stripe.prices
    /\ UNCHANGED <<pc, i, j, results, products, exc, delivery_vars, orch_vars>>

\* category = engine._get_category_for_template(template_id), for an id of ids.
Lookup(ids) ==
    \E template_id \in ids :
        Invoke("_get_category_for_template", template_id,
               [stripe |-> StripeState,
                value |-> _get_category_for_template(template_id),
                exc |-> None])

Call_get_category_for_template == Lookup(ProbeLookupIds)

Call_create_individual_template_product ==
    \E template_id \in ProbeIds, fail \in 0..2 :
        Invoke("_create_individual_template_product", template_id,
               _create_individual_template_product(StripeState, template_id, fail))

Call_create_bundle_product ==
    \E k \in 1..Len(categories), fail \in 0..2 :
        Invoke("_create_bundle_product", categories[k],
               _create_bundle_product(StripeState, categories[k], fail))

Call_create_vault_license_product ==
    \E fail \in 0..2 :
        Invoke("_create_vault_license_product", None,
               _create_vault_license_product(StripeState, fail))

Call_create_subscription_product ==
    \E interval \in {"monthly", "annual", "weekly"}, fail \in 0..2 :
        Invoke("_create_subscription_product", interval,
               _create_subscription_product(StripeState, interval, fail))

Call_create_enterprise_product ==
    \E fail \in 0..4 :
        Invoke("_create_enterprise_product", None,
               _create_enterprise_product(StripeState, fail))

NextCalls ==
    \/ Call_get_category_for_template
    \/ Call_create_individual_template_product
    \/ Call_create_bundle_product
    \/ Call_create_vault_license_product
    \/ Call_create_subscription_product
    \/ Call_create_enterprise_product

SpecCalls == Init /\ [][NextCalls]_vars

\* The lookup alone, over every id of LookupIds.
NextLookup == Lookup(LookupIds)

SpecLookup == Init /\ [][NextLookup]_vars

\* ------------------------------------------------- setup_digital_delivery
\* self.bucket_name
bucket_name == "iza-os-templates"

\* folders, in declared order.
folders ==
    << "templates/individual/", "templates/bundles/", "templates/vault/",
       "customization-tools/", "documentation/", "bonus-materials/" >>

\* delivery_config
delivery_config ==
    [bucket |-> bucket_name, url_expiry |-> 3600,
     access_control |-> "authenticated_customers_only"]

reraise(next) == "raised"

\* except Exception as e: print(...): the failure is printed and the loop
\* goes on to where it would have gone.
except_Exception(next) == next

\* delivery = engine.setup_digital_delivery(): the call, up to the loop.
StartDelivery ==
    /\ dpc = "idle"
    /\ dpc' = "folders"
    /\ f' = 1
    /\ UNCHANGED <<s3_puts, delivery, engine_vars, orch_vars>>

\* One pass of "for folder in folders": put_object succeeds or raises; after
\* the last pass delivery_config is built and returned.
FolderStep ==
    /\ dpc = "folders"
    /\ \E ok \in BOOLEAN :
         LET next == IF f + 1 <= Len(folders) THEN "folders" ELSE "returned"
             to   == IF ok THEN next ELSE except_Exception(next)
         IN  /\ s3_puts' = Append(s3_puts, [Bucket |-> bucket_name,
                                            Key |-> folders[f], ok |-> ok])
             /\ dpc' = to
             /\ f' = IF to = "raised" THEN f ELSE f + 1
             /\ delivery' = IF to = "returned" THEN delivery_config ELSE delivery
             /\ UNCHANGED <<engine_vars, orch_vars>>

NextDelivery ==
    \/ StartDelivery
    \/ FolderStep

SpecDelivery == Init /\ [][NextDelivery]_vars

\* ------------------------------------------------- TemplateOrchestrator
\* A category string is the sequence of its characters.
upper_letters == <<"A", "B", "C", "D", "E", "F", "G", "H", "I", "J", "K", "L", "M">>
                 \o <<"N", "O", "P", "Q", "R", "S", "T", "U", "V", "W", "X", "Y", "Z">>

lower_letters == <<"a", "b", "c", "d", "e", "f", "g", "h", "i", "j", "k", "l", "m">>
                 \o <<"n", "o", "p", "q", "r", "s", "t", "u", "v", "w", "x", "y", "z">>

\* str.lower() on one character: an upper-case letter becomes its lower-case
\* letter, any other character stays (the ASCII part of str.lower()).
lower_char(c) ==
    IF \E k \in 1..Len(upper_letters) : upper_letters[k] = c
    THEN lower_letters[CHOOSE k \in 1..Len(upper_letters) : upper_letters[k] = c]
    ELSE c

\* category.lower()
str_lower(category) == [k \in 1..Len(category) |-> lower_char(category[k])]

\* The keys of pricing_tiers in _calculate_price_tier.
fintech == <<"f", "i", "n", "t", "e", "c", "h">>
saas == <<"s", "a", "a", "s">>
ecommerce == <<"e", "c", "o", "m", "m", "e", "r", "c", "e">>
consulting == <<"c", "o", "n", "s", "u", "l", "t", "i", "n", "g">>
default == <<"d", "e", "f", "a", "u", "l", "t">>

\* The dict pricing_tiers of _calculate_price_tier.
price_tier_tables ==
    (fintech :> [individual |-> 49, bundle |-> 299, enterprise |-> 1997])
    @@ (saas :> [individual |-> 39, bundle |-> 249, enterprise |-> 1497])
    @@ (ecommerce :> [individual |-> 29, bundle |-> 199, enterprise |-> 997])
    @@ (consulting :> [individual |-> 59, bundle |-> 399, enterprise |-> 2497])
    @@ (default :> [individual |-> 25, bundle |-> 149, enterprise |-> 897])

\* dict.get(key, fallback)
dict_get(d, key, otherwise) == IF key \in DOMAIN d THEN d[key] ELSE otherwise

price_tier_case_sensitive(category) ==
    dict_get(price_tier_tables, category, price_tier_tables[default])

\* return pricing_tiers.get(category.lower(), pricing_tiers["default"])
_calculate_price_tier(category) ==
    dict_get(price_tier_tables, str_lower(category), price_tier_tables[default])

\* str.upper() on one character, to write the inputs.
upper_char(c) ==
    IF \E k \in 1..Len(lower_letters) : lower_letters[k] = c
    THEN upper_letters[CHOOSE k \in 1..Len(lower_letters) : lower_letters[k] = c]
    ELSE c

\* Every way of writing word in upper and lower case.
CaseVariants(word) ==
    {[k \in 1..Len(word) |-> IF k \in caps THEN upper_char(word[k]) ELSE word[k]] :
        caps \in SUBSET (1..Len(word))}

\* The category strings a caller asks the price tier of.
TierInputs ==
    CaseVariants(fintech) \cup CaseVariants(saas)
    \cup {ecommerce, <<"E", "c", "o", "m", "m", "e", "r", "c", "e">>, <<"e", "-", "c", "o", "m", "m", "e", "r", "c", "e">>,
          consulting, <<"C", "O", "N", "S", "U", "L", "T", "I", "N", "G">>, <<"c", "o", "n", "s", "u", "l", "t", "i", "n", "g", " ">>,
          default, <<"D", "e", "f", "a", "u", "l", "t">>, <<"h", "e", "a", "l", "t", "h">>, <<"s", "a">>, <<>>}

\* tier = orchestrator._calculate_price_tier(category)
Call_calculate_price_tier ==
    \E category \in TierInputs :
        Invoke("_calculate_price_tier", category,
               [stripe |-> StripeState,
                value |-> _calculate_price_tier(category),
                exc |-> None])

NextTier == Call_calculate_price_tier

SpecTier == Init /\ [][NextTier]_vars

\* ---------------------------------------------- generate_template_batch
\* The categories a caller asks a batch of.
BatchCategories ==
    {fintech, <<"S", "a", "a", "S">>, <<"h", "e", "a", "l", "t", "h">>}

\* The counts a caller asks a batch of.
BatchCounts == (0 - 1)..MaxCount

loop_continues_inclusive(index, count) == index <= count

\* for i in range(count): the loop has a pass for index.
loop_continues(index, count) == index < count

\* template_data of _generate_single_template, for the completion the
\* coroutine's n-th LLM call returned. The date in "id" and "generated_at"
\* are not modelled.
template_data(t, category, index, n) ==
    [id |-> <<category, index>>,
     category |-> category,
     content |-> [completion |-> <<t, n>>],
     price_tier |-> _calculate_price_tier(category),
     monetization_ready |-> TRUE]

incremented_twice(t) == generated_today + 2

incremented_lost(t) == Len(tasks[t].templates) + 1

\* self.generated_today += 1, in coroutine t: no await lies between the read
\* and the write.
incremented(t) == generated_today + 1

\* A coroutine at "for i in range(count)" with index next: it issues the LLM
\* call of _generate_single_template and suspends at its await, or the loop
\* is over and it returns templates.
AtLoop(task, index) ==
    IF loop_continues(index, task.count)
    THEN [task EXCEPT !.state = "awaiting", !.i = index, !.calls = @ + 1]
    ELSE [task EXCEPT !.state = "done", !.i = index]

\* generate_template_batch(category, count) is called and runs to its first
\* await.
StartBatch ==
    \E t \in Tasks, category \in BatchCategories, count \in BatchCounts :
        /\ tasks[t].state = "new"
        /\ tasks' = [tasks EXCEPT ![t] =
                        AtLoop([state |-> "new", category |-> category,
                                count |-> count, i |-> 0, templates |-> <<>>,
                                calls |-> 0, exc |-> None], 0)]
        /\ UNCHANGED <<generated_today, engine_vars, delivery_vars>>

\* The LLM call a coroutine awaits ends. With a completion the coroutine
\* builds the template, appends it, counts it and goes round the loop to its
\* next await or its return. With an exception, the exception leaves
\* _generate_single_template and generate_template_batch.
ResumeBatch ==
    \E t \in Tasks, ok \in BOOLEAN :
        LET task == tasks[t]
        IN  /\ task.state = "awaiting"
            /\ IF ok
               THEN /\ tasks' = [tasks EXCEPT ![t] =
                            AtLoop([task EXCEPT !.templates =
                                        append(@, template_data(
                                            t, task.category, task.i, task.calls))],
                                   task.i + 1)]
                    /\ generated_today' = incremented(t)
               ELSE /\ tasks' = [tasks EXCEPT ![t] =
                            [task EXCEPT !.state = "failed",
                                         !.exc = [type |-> "APIError",
                                                  index |-> task.i]]]
                    /\ UNCHANGED generated_today
            /\ UNCHANGED <<engine_vars, delivery_vars>>

NextBatches ==
    \/ StartBatch
    \/ ResumeBatch

SpecBatches == Init /\ [][NextBatches]_vars

\* ================================================================ claims
LookupFn == "_get_category_for_template"

\* The positions of the declared ranges that contain id.
Hits(id) ==
    {k \in 1..Len(category_mapping) :
        category_mapping[k].start <= id /\ id <= category_mapping[k].end}

FirstHit(id) == CHOOSE k \in Hits(id) : \A m \in Hits(id) : k <= m

CategoryNames == {category_mapping[k].category : k \in 1..Len(category_mapping)}

\* The individual products Stripe holds.
IndividualProducts ==
    {k \in 1..Len(stripe_products) :
        stripe_products[k].metadata.type = "individual_template"}

\* C1: a lookup of any id returns the category of the first declared range
\* (start, end) with start <= id <= end, and "Miscellaneous" exactly when no
\* declared range contains the id (200 lies in the fourth range).
C1_FirstRangeOrMiscellaneous ==
    (last # None /\ last.fn = LookupFn) =>
        /\ last.exc = None
        /\ Hits(last.arg) # {} =>
               last.value = category_mapping[FirstHit(last.arg)].category
        /\ (last.value = "Miscellaneous") <=> (Hits(last.arg) = {})
        /\ last.arg = 5 => last.value = "Corporate & Enterprise"
        /\ last.arg = 61 => last.value = "Financial Services"
        /\ last.arg = 200 => last.value = "Education & Training"
        /\ last.arg \in {0, 488} => last.value = "Miscellaneous"

C1_Witness ==
    /\ last # None
    /\ last.fn = LookupFn
    /\ last.arg = 61
    /\ last.value = "Financial Services"
    /\ ncalls = 2

\* C2: the declared ranges are pairwise disjoint and their union is exactly
\* 1..487, so every id of 1..487 lies in exactly one range, and no
\* individual product the run creates carries the category "Miscellaneous".
C2_RangesPartitionInventory ==
    /\ \A id \in 1..487 : Cardinality(Hits(id)) = 1
    /\ \A k \in 1..Len(category_mapping) :
           /\ 1 <= category_mapping[k].start
           /\ category_mapping[k].start <= category_mapping[k].end
           /\ category_mapping[k].end <= 487
    /\ \A k \in IndividualProducts :
           stripe_products[k].metadata.category # "Miscellaneous"

C2_Witness ==
    /\ pc = "returned"
    /\ \E k \in IndividualProducts :
           /\ stripe_products[k].metadata.template_id = 272
           /\ stripe_products[k].metadata.category = "Healthcare & Wellness"

\* C3: every lookup returns a category and raises nothing, leaves Stripe and
\* every variable of the engine and its caller as they were, and returns what
\* the lookup made before it returned for the same id and what the builder
\* of an individual product stored for that id at any earlier call.
C3_TotalPureIdempotent ==
    [][ (ncalls' = ncalls + 1 /\ last'.fn = LookupFn) =>
          /\ last'.exc = None
          /\ last'.value \in CategoryNames \cup {"Miscellaneous"}
          /\ UNCHANGED <<stripe_products, stripe_prices, pc, i, j, results,
                         products, exc>>
          /\ (last # None /\ last.fn = LookupFn /\ last.arg = last'.arg) =>
                 last'.value = last.value
          /\ \A k \in IndividualProducts :
                 stripe_products[k].metadata.template_id = last'.arg =>
                     stripe_products[k].metadata.category = last'.value
      ]_vars

C3_Witness ==
    /\ ncalls = 2
    /\ last.fn = LookupFn
    /\ last.arg = 61
    /\ \E k \in IndividualProducts :
           stripe_products[k].metadata.template_id = 61

\* C4: when a Stripe call fails for one template id, generation does not
\* raise: the run returns, the other 486 individual records are in the value
\* returned, and the failure is reported with the failed id.
C4_ContinueOnError ==
    exc # None =>
        /\ pc = "returned"
        /\ products # None
        /\ Len(products.individual_templates) = 486

\* C5: a failure never destroys earlier work: when an entry fails after some
\* records were collected, the caller holds those records.
C5_PartialResultHandedOver ==
    (pc = "raised" /\ Len(results.individual_templates) > 0) =>
        /\ products # None
        /\ products.individual_templates = results.individual_templates

\* The template ids of a list of individual records.
TemplateIdsOf(list) == {list[k].template_id : k \in 1..Len(list)}

\* C6: a run no Stripe call of which fails returns 487 individual records,
\* one per id of 1..487, 10 bundle records, one per declared category, one
\* vault record, the monthly and the annual subscription record and one
\* enterprise record: 501 records, for 501 products in Stripe.
C6_OneRecordPerEntry ==
    pc = "returned" =>
        /\ Len(products.individual_templates) = 487
        /\ TemplateIdsOf(products.individual_templates) = 1..487
        /\ Len(products.bundles) = 10
        /\ {products.bundles[k].category : k \in 1..10} =
               {categories[k] : k \in 1..Len(categories)}
        /\ Cardinality({products.bundles[k].category : k \in 1..10}) = 10
        /\ products.vault_license # None
        /\ Len(products.subscriptions) = 2
        /\ {products.subscriptions[k].interval : k \in 1..2} =
               {"monthly", "annual"}
        /\ Len(products.enterprise) = 1
        /\ Len(products.individual_templates) + Len(products.bundles) + 1
               + Len(products.subscriptions) + Len(products.enterprise)
               = 487 + 14
        /\ Len(stripe_products) = 501
        /\ Cardinality(
               {products.individual_templates[k].product_id : k \in 1..487}
               \cup {products.bundles[k].product_id : k \in 1..10}
               \cup {products.vault_license.product_id}
               \cup {products.subscriptions[k].product_id : k \in 1..2}
               \cup {products.enterprise[1].product_id}) = 501

C6_Witness ==
    /\ pc = "returned"
    /\ exc = None
    /\ Len(products.individual_templates) = 487

\* The entry the k-th product of a run belongs to, in declaration order.
DeclaredType(k) ==
    IF k <= 487 THEN "individual_template"
    ELSE IF k <= 497 THEN "bundle"
    ELSE IF k = 498 THEN "vault_license"
    ELSE IF k <= 500 THEN "subscription"
    ELSE "enterprise"

\* C7: at every point of a run the records collected are in declaration
\* order and Stripe's calls were issued in that order: individual_templates[k]
\* is template k's and the k-th product created, bundles[k] is the k-th
\* declared category's and product 487 + k, then the vault, then monthly
\* before annual, then enterprise.
C7_DeclarationOrder ==
    results # None =>
        /\ \A k \in 1..Len(results.individual_templates) :
               /\ results.individual_templates[k].template_id = k
               /\ results.individual_templates[k].product_id = <<"prod", k>>
        /\ \A k \in 1..Len(results.bundles) :
               /\ results.bundles[k].category = categories[k]
               /\ results.bundles[k].product_id = <<"prod", 487 + k>>
        /\ results.vault_license # None =>
               results.vault_license.product_id = <<"prod", 498>>
        /\ results.subscriptions # <<>> =>
               /\ Len(results.subscriptions) = 2
               /\ results.subscriptions[1].interval = "monthly"
               /\ results.subscriptions[1].product_id = <<"prod", 499>>
               /\ results.subscriptions[2].interval = "annual"
               /\ results.subscriptions[2].product_id = <<"prod", 500>>
        /\ \A k \in 1..Len(results.enterprise) :
               results.enterprise[k].product_id = <<"prod", 500 + k>>
        /\ \A k \in 1..Len(stripe_products) :
               /\ stripe_products[k].id = <<"prod", k>>
               /\ stripe_products[k].metadata.type = DeclaredType(k)
               /\ k <= 487 => stripe_products[k].metadata.template_id = k
               /\ (487 < k /\ k <= 497) =>
                      stripe_products[k].metadata.category = categories[k - 487]
               /\ k = 499 => stripe_products[k].metadata.interval = "monthly"
               /\ k = 500 => stripe_products[k].metadata.interval = "annual"

C7_Witness ==
    /\ pc = "returned"
    /\ products.individual_templates[487].template_id = 487
    /\ products.bundles[10].category = "Research & Development"
    /\ products.subscriptions[2].interval = "annual"
    /\ stripe_products[501].metadata.type = "enterprise"

\* The builders that return a record with an amount.
AmountFns ==
    {"_create_individual_template_product", "_create_bundle_product",
     "_create_vault_license_product", "_create_subscription_product"}

\* C8: prices are deterministic and never negative: two prices Stripe was
\* asked for with the same tier and the same input (template id, category,
\* interval, enterprise tier) have the same amount, however many entries
\* were created between them; every amount charged and every amount
\* returned is >= 0, as is the individual price of every id of 1..487 and
\* the bundle price of every declared category.
C8_PricesDeterministicNonNegative ==
    /\ \A a, b \in 1..Len(stripe_prices) :
           (/\ stripe_prices[a].metadata = stripe_prices[b].metadata
            /\ stripe_prices[a].recurring = stripe_prices[b].recurring) =>
               stripe_prices[a].unit_amount = stripe_prices[b].unit_amount
    /\ \A a \in 1..Len(stripe_prices) : stripe_prices[a].unit_amount >= 0
    /\ (last # None /\ last.exc = None /\ last.fn \in AmountFns) =>
           /\ last.value.amount >= 0
           /\ stripe_prices[Len(stripe_prices)].unit_amount =
                  last.value.amount * 100
    /\ (last # None /\ last.exc = None
            /\ last.fn = "_create_enterprise_product") =>
           \A k \in 1..Len(last.value.pricing_tiers) :
               last.value.pricing_tiers[k].amount >= 0
    /\ \A id \in 1..487 : base_price(id) >= 0
    /\ \A k \in 1..Len(categories) : bundle_price(categories[k]) >= 0

C8_Witness ==
    /\ Len(stripe_prices) = 2
    /\ stripe_prices[1].metadata.pricing_tier = "individual"
    /\ stripe_prices[1].metadata = stripe_prices[2].metadata
    /\ stripe_prices[1].metadata.template_id = 24
    /\ stripe_prices[2].unit_amount = 4900

\* C9: the vault tier costs 997: every vault price Stripe was asked for is
\* 99700 cents = 997 * 100 and every vault record returned has amount 997,
\* the configured vault price, whatever was created before and at every
\* invocation.
C9_VaultAlways997 ==
    /\ \A a \in 1..Len(stripe_prices) :
           stripe_prices[a].metadata.pricing_tier = "vault" =>
               /\ stripe_prices[a].unit_amount = 99700
               /\ stripe_prices[a].unit_amount = 997 * 100
               /\ stripe_prices[a].unit_amount = pricing_tiers.vault.price * 100
    /\ (last # None /\ last.exc = None
            /\ last.fn = "_create_vault_license_product") =>
           /\ last.value.amount = 997
           /\ last.value.amount = pricing_tiers.vault.price
           /\ stripe_prices[Len(stripe_prices)].unit_amount =
                  last.value.amount * 100

C9_Witness ==
    /\ ncalls = 2
    /\ last.fn = "_create_vault_license_product"
    /\ last.exc = None
    /\ last.value.amount = 997
    /\ Len(stripe_prices) = 2
    /\ stripe_prices[1].metadata.pricing_tier = "vault"
    /\ stripe_prices[2].unit_amount = 99700

\* C10: every individual record of a run has amount 25 + (id mod 25), which
\* lies in 25..50 and in the configured individual price_range (5, 50), and
\* the price Stripe was asked for is that amount times 100 cents.
C10_IndividualPriceFormula ==
    results # None =>
        \A k \in 1..Len(results.individual_templates) :
            LET r == results.individual_templates[k]
            IN  /\ r.amount = 25 + (r.template_id % 25)
                /\ 25 <= r.amount /\ r.amount <= 50
                /\ pricing_tiers.individual.price_range[1] <= r.amount
                /\ r.amount <= pricing_tiers.individual.price_range[2]
                /\ stripe_prices[r.price_id[2]].id = r.price_id
                /\ stripe_prices[r.price_id[2]].unit_amount = r.amount * 100
                /\ stripe_prices[r.price_id[2]].metadata.template_id =
                       r.template_id

C10_Witness ==
    /\ pc = "returned"
    /\ products.individual_templates[24].amount = 49
    /\ products.individual_templates[25].amount = 25
    /\ stripe_prices[487].unit_amount = 3700

\* C11: a record is never changed after it was collected: at every step of a
\* run each record already in results is the same record after the step, at
\* the same place, and the value returned is results as it then stands.
C11_RecordsNeverMutated ==
    [][ (results # None /\ results' # None) =>
          /\ \A k \in 1..Len(results.individual_templates) :
                 /\ k <= Len(results'.individual_templates)
                 /\ results'.individual_templates[k] =
                        results.individual_templates[k]
          /\ \A k \in 1..Len(results.bundles) :
                 /\ k <= Len(results'.bundles)
                 /\ results'.bundles[k] = results.bundles[k]
          /\ results.vault_license # None =>
                 results'.vault_license = results.vault_license
          /\ results.subscriptions # <<>> =>
                 results'.subscriptions = results.subscriptions
          /\ \A k \in 1..Len(results.enterprise) :
                 /\ k <= Len(results'.enterprise)
                 /\ results'.enterprise[k] = results.enterprise[k]
          /\ products' # None => products' = results'
      ]_vars

C11_Witness ==
    /\ pc = "returned"
    /\ products.individual_templates[1].template_id = 1
    /\ products.individual_templates[1].amount = 26
    /\ products.individual_templates[1].product_id = <<"prod", 1>>
    /\ Len(products.enterprise) = 1

\* The prices of the bundle tier Stripe was asked for.
BundlePrices ==
    {a \in 1..Len(stripe_prices) :
        stripe_prices[a].metadata.pricing_tier = "bundle"}

\* C14: every bundle price lies inside the configured bundle price_range
\* (99, 299): the amount Stripe is asked for is between 99 * 100 and
\* 299 * 100 cents and the amount returned between 99 and 299.
C14_BundlePriceInRange ==
    /\ \A a \in BundlePrices :
           /\ pricing_tiers.bundle.price_range[1] * 100
                  <= stripe_prices[a].unit_amount
           /\ stripe_prices[a].unit_amount
                  <= pricing_tiers.bundle.price_range[2] * 100
    /\ (last # None /\ last.exc = None
            /\ last.fn = "_create_bundle_product") =>
           /\ pricing_tiers.bundle.price_range[1] <= last.value.amount
           /\ last.value.amount <= pricing_tiers.bundle.price_range[2]

\* The ids of 1..487 the lookup gives the category.
IdsOfCategory(category) ==
    {id \in 1..487 : _get_category_for_template(id) = category}

\* The bundle products Stripe holds.
BundleProducts ==
    {k \in 1..Len(stripe_products) :
        stripe_products[k].metadata.type = "bundle"}

\* C15: a bundle advertises no more templates than its category has: the
\* template_count of every bundle product is at most the number of ids of
\* 1..487 the lookup gives its category, and that number is not 0.
C15_BundleHoldsItsTemplates ==
    \A k \in BundleProducts :
        /\ IdsOfCategory(stripe_products[k].metadata.category) # {}
        /\ stripe_products[k].metadata.template_count
               <= Cardinality(IdsOfCategory(stripe_products[k].metadata.category))

\* C18: a call of the enterprise builder no Stripe call of which fails
\* creates one product and then three prices of that product, starter
\* 199700, growth 299700, enterprise 499700 cents in this order, each amount
\* inside the configured enterprise price_range (1497, 4997), and returns
\* the three tiers in this order with the ids of these prices.
C18_EnterpriseOneProductThreePrices ==
    [][ (ncalls' = ncalls + 1 /\ last'.fn = "_create_enterprise_product"
             /\ last'.exc = None) =>
          LET np == Len(stripe_products)
              nq == Len(stripe_prices)
              v  == last'.value
          IN  /\ Len(stripe_products') = np + 1
              /\ SubSeq(stripe_products', 1, np) = stripe_products
              /\ stripe_products'[np + 1].metadata.type = "enterprise"
              /\ v.product_id = stripe_products'[np + 1].id
              /\ Len(stripe_prices') = nq + 3
              /\ SubSeq(stripe_prices', 1, nq) = stripe_prices
              /\ \A k \in 1..3 :
                     /\ stripe_prices'[nq + k].product = v.product_id
                     /\ stripe_prices'[nq + k].unit_amount =
                            <<199700, 299700, 499700>>[k]
                     /\ stripe_prices'[nq + k].metadata.pricing_tier =
                            <<"enterprise_starter", "enterprise_growth",
                              "enterprise_enterprise">>[k]
                     /\ v.pricing_tiers[k].price_id = stripe_prices'[nq + k].id
                     /\ pricing_tiers.enterprise.price_range[1]
                            <= v.pricing_tiers[k].amount
                     /\ v.pricing_tiers[k].amount
                            <= pricing_tiers.enterprise.price_range[2]
              /\ Len(v.pricing_tiers) = 3
              /\ [k \in 1..3 |-> v.pricing_tiers[k].tier] =
                     <<"starter", "growth", "enterprise">>
              /\ [k \in 1..3 |-> v.pricing_tiers[k].amount] =
                     <<1997, 2997, 4997>>
      ]_vars

C18_Witness ==
    /\ ncalls = 2
    /\ last.fn = "_create_enterprise_product"
    /\ last.exc = None
    /\ Len(stripe_products) = 2
    /\ Len(stripe_prices) = 4
    /\ stripe_prices[4].unit_amount = 499700

\* C17: setup_digital_delivery goes on after a failure: the k-th put_object
\* call is for the k-th declared folder, whatever calls failed before it, no
\* failure leaves the function, and the call returns the delivery
\* configuration (bucket, url_expiry 3600, access control) after exactly six
\* attempts, one per folder.
C17_DeliveryContinuesOnError ==
    /\ dpc \in {"idle", "folders", "returned"}
    /\ Len(s3_puts) <= 6
    /\ \A k \in 1..Len(s3_puts) :
           /\ s3_puts[k].Key = folders[k]
           /\ s3_puts[k].Bucket = "iza-os-templates"
    /\ dpc = "folders" => (Len(s3_puts) = f - 1 /\ delivery = None)
    /\ dpc = "returned" =>
           /\ Len(s3_puts) = 6
           /\ delivery = [bucket |-> "iza-os-templates", url_expiry |-> 3600,
                          access_control |-> "authenticated_customers_only"]

C17_Witness ==
    /\ dpc = "returned"
    /\ delivery # None
    /\ ~s3_puts[1].ok
    /\ s3_puts[2].ok
    /\ ~s3_puts[6].ok

\* Two characters that are equal, or the upper- and lower-case form of one
\* letter.
SameLetter(a, b) ==
    \/ a = b
    \/ \E k \in 1..26 :
           {a, b} = {upper_letters[k], lower_letters[k]}

\* Two strings equal up to the case of their letters.
EqualIgnoringCase(x, y) ==
    /\ Len(x) = Len(y)
    /\ \A k \in 1..Len(x) : SameLetter(x[k], y[k])

\* C16: the price tier of any category string is the table of fintech, saas,
\* ecommerce or consulting when the string is that word in any mix of upper
\* and lower case, and {individual 25, bundle 149, enterprise 897}
\* otherwise; no call raises, and individual < bundle < enterprise in the
\* table returned.
C16_PriceTierCaseInsensitive ==
    (last # None /\ last.fn = "_calculate_price_tier") =>
        /\ last.exc = None
        /\ EqualIgnoringCase(last.arg, fintech) =>
               last.value = [individual |-> 49, bundle |-> 299, enterprise |-> 1997]
        /\ EqualIgnoringCase(last.arg, saas) =>
               last.value = [individual |-> 39, bundle |-> 249, enterprise |-> 1497]
        /\ EqualIgnoringCase(last.arg, ecommerce) =>
               last.value = [individual |-> 29, bundle |-> 199, enterprise |-> 997]
        /\ EqualIgnoringCase(last.arg, consulting) =>
               last.value = [individual |-> 59, bundle |-> 399, enterprise |-> 2497]
        /\ (\A key \in {fintech, saas, ecommerce, consulting} :
                ~EqualIgnoringCase(last.arg, key)) =>
               last.value = [individual |-> 25, bundle |-> 149, enterprise |-> 897]
        /\ last.value.individual < last.value.bundle
        /\ last.value.bundle < last.value.enterprise

C16_Witness ==
    /\ last # None
    /\ last.fn = "_calculate_price_tier"
    /\ last.arg = <<"S", "a", "a", "S">>
    /\ last.value = [individual |-> 39, bundle |-> 249, enterprise |-> 1497]

\* The coroutines created so far.
Started == {t \in Tasks : tasks[t].state # "new"}

\* The templates a batch of count is asked for.
Asked(count) == IF count > 0 THEN count ELSE 0

RECURSIVE TemplatesOf(_)
\* The number of templates the coroutines 1..n have appended.
TemplatesOf(n) ==
    IF n = 0 THEN 0
    ELSE TemplatesOf(n - 1)
         + (IF n \in Started THEN Len(tasks[n].templates) ELSE 0)

RECURSIVE AskedOf(_)
\* The number of templates the coroutines 1..n were asked for.
AskedOf(n) ==
    IF n = 0 THEN 0
    ELSE AskedOf(n - 1) + (IF n \in Started THEN Asked(tasks[n].count) ELSE 0)

\* The templates of coroutine t are those of indexes 0, 1, ... in this
\* order, each of the category asked for, with that category's price tier
\* and the completion of the coroutine's own call for it.
InIndexOrder(t) ==
    \A k \in 1..Len(tasks[t].templates) :
        LET tpl == tasks[t].templates[k]
        IN  /\ tpl.id = <<tasks[t].category, k - 1>>
            /\ tpl.category = tasks[t].category
            /\ tpl.price_tier = _calculate_price_tier(tasks[t].category)
            /\ tpl.content = [completion |-> <<t, k>>]

\* C12: a batch that returns holds exactly count templates, of indexes
\* 0..count-1 in this order, each with the category asked for and its price
\* tier, after exactly one LLM call per template; for count <= 0 it returns
\* the empty list and has made no call. Until then it has made one call per
\* template appended, and one more while it waits or when that call failed.
C12_BatchReturnsCountTemplates ==
    \A t \in Started :
        /\ InIndexOrder(t)
        /\ tasks[t].state = "done" =>
               /\ Len(tasks[t].templates) = Asked(tasks[t].count)
               /\ tasks[t].calls = Len(tasks[t].templates)
               /\ tasks[t].count <= 0 =>
                      (tasks[t].templates = <<>> /\ tasks[t].calls = 0)
        /\ tasks[t].state \in {"awaiting", "failed"} =>
               /\ tasks[t].calls = Len(tasks[t].templates) + 1
               /\ Len(tasks[t].templates) < tasks[t].count

C12_Witness ==
    /\ tasks[1].state = "done"
    /\ tasks[1].count = 3
    /\ Len(tasks[1].templates) = 3
    /\ tasks[1].templates[3].id = <<fintech, 2>>
    /\ tasks[1].templates[3].price_tier.individual = 49
    /\ tasks[2].state = "done"
    /\ tasks[2].count = 0

\* C13: generated_today is the number of templates generated since
\* construction: it is the sum of the templates the batches have appended,
\* a batch that returned has appended count of them (none for count <= 0),
\* and a batch that failed at index k has appended k: the failed template
\* is not counted.
C13_CounterCountsGenerated ==
    /\ generated_today = TemplatesOf(NumTasks)
    /\ \A t \in Started :
           /\ tasks[t].state = "done" =>
                  Len(tasks[t].templates) = Asked(tasks[t].count)
           /\ tasks[t].state = "failed" =>
                  /\ Len(tasks[t].templates) = tasks[t].exc.index
                  /\ tasks[t].exc.index < tasks[t].count
    /\ (\A t \in Tasks : tasks[t].state = "new") => generated_today = 0

C13_Witness ==
    /\ tasks[1].state = "failed"
    /\ tasks[1].exc.index = 2
    /\ tasks[1].count = 3
    /\ tasks[2].state = "done"
    /\ tasks[2].count = 1
    /\ generated_today = 3

\* C19: when every coroutine of the orchestrator has returned, however
\* their steps were interleaved, generated_today is the sum of their counts
\* and each holds exactly its own count templates, in its own index order,
\* with its own category and the completions of its own calls.
C19_InterleavedBatchesKeepCount ==
    (\A t \in Tasks : tasks[t].state = "done") =>
        /\ generated_today = AskedOf(NumTasks)
        /\ \A t \in Tasks :
               /\ Len(tasks[t].templates) = Asked(tasks[t].count)
               /\ InIndexOrder(t)

C19_Witness ==
    /\ \A t \in Tasks : tasks[t].state = "done"
    /\ tasks[1].count = 2
    /\ tasks[2].count = 3
    /\ tasks[1].category # tasks[2].category
    /\ generated_today >= 5

====
